---- MODULE Spec2Model ----
(***************************************************************************)
(* A model of the mauve-viewer alignment model and cursor mapping:         *)
(*   - MauveViewer (src/src/cursor.js, lines 260-558): the alignment data  *)
(*     (this.data), the per-track index (this.genomeRegions), hiddenTracks *)
(*     and the operations setReference, moveTrackUp, moveTrackDown,        *)
(*     hideTrack, showTrack;                                               *)
(*   - Cursor (src/src/cursor.js, lines 5-234): the hover state and the    *)
(*     mouseover / mousemove / mouseout / click handlers.                  *)
(* A region object is a record; this.data is a sequence of groups (LCBs),  *)
(* each a sequence of regions; genomeRegions holds region ids, because in  *)
(* the source it holds references to the region objects of this.data.      *)
(*                                                                         *)
(* Three specifications:                                                   *)
(*   Spec        the alignment model under the track controls' callbacks   *)
(*               (setReference, moveTrackUp, moveTrackDown, hideTrack,     *)
(*               showTrack), each ending in render();                      *)
(*   CursorSpec  a Cursor constructed with the parameters its constructor  *)
(*               reads (tracks, onclick) under the pointer events, the     *)
(*               click and the zoom, on a loaded alignment.                *)
(*   ViewerCursorSpec  the Cursor as MauveViewer.render constructs it      *)
(*               (neither tracks nor onclick) under the same events.       *)
(* Properties that speak of a call following a step (a second setReference,*)
(* a second swap, a showTrack after a hideTrack) apply the operation's     *)
(* operators to the state the step produced.                               *)
(***************************************************************************)
EXTENDS Integers, Sequences, FiniteSets, TLC

VARIABLES
    data,           \* MauveViewer.data: sequence of LCBs, each a sequence of regions
    genomeRegions,  \* MauveViewer.genomeRegions: track index -> sequence of region ids
    trackCount,     \* MauveViewer.trackCount
    hiddenTracks,   \* MauveViewer.hiddenTracks
    reference,      \* the track index passed to the last setReference call
    zoom,           \* the zoom/pan transform the tracks' scales are derived from
    cursor,         \* the Cursor object's fields
    lineX,          \* x1 of each track's '.cursor-line'
    boxX,           \* x of each track's '.hover-box'
    opacity,        \* the opacity attribute of the cursor lines and hover boxes
    report,         \* the argument of the last onclick call
    error           \* the outcome of the last event handler

vars == <<data, genomeRegions, trackCount, hiddenTracks, reference,
          zoom, cursor, lineX, boxX, opacity, report, error>>

modelVars == <<data, genomeRegions, trackCount, hiddenTracks, reference>>
cursorVars == <<cursor, lineX, boxX, opacity, report, error>>

(***************************************************************************)
(* Bounds of the model.                                                    *)
(***************************************************************************)
\* hideTrack pushes without looking: hiddenTracks is capped at this length
MaxHidden == 2
\* zoom factors 1..MaxZoom (surface units per sequence position)
MaxZoom == 2

\* a field that may be undefined: << >> when it is, << v >> when it holds v
Undefined == << >>
Some(v) == << v >>
Val(o) == o[1]

(***************************************************************************)
(* Input alignment data: two groups over three genomes.  Group 0 has a     *)
(* region on every track, with spans of unequal lengths; group 1 has no    *)
(* region on track 2 and lists track 3 before track 1 (the loader does not *)
(* sort) and is an opposite-strand pair.  The strands of group 0 are the    *)
(* input's choice.                                                         *)
(***************************************************************************)
Strands == {"+", "-"}

RawRegion(idx, s, st, en) ==
    [lcb_idx |-> idx, strand |-> s, start |-> st, end |-> en, name |-> idx]

RawData(s) ==
    << << RawRegion(1, s[1], 2, 2), RawRegion(2, s[2], 1, 2), RawRegion(3, s[3], 4, 6) >>,
       << RawRegion(3, "-", 8, 8), RawRegion(1, "+", 4, 4) >> >>

Inputs == { RawData(s) : s \in [1..3 -> Strands] }

(***************************************************************************)
(* MauveViewer.getGenomeRegions: numbers the regions (id, groupID) in      *)
(* traversal order and indexes them by track.                              *)
(***************************************************************************)
RECURSIVE CountBefore(_, _)
CountBefore(lcbs, g) ==
    IF g <= 1 THEN 0 ELSE CountBefore(lcbs, g - 1) + Len(lcbs[g - 1])

TagRegions(lcbs) ==
    [g \in 1..Len(lcbs) |->
        [k \in 1..Len(lcbs[g]) |->
            [id |-> CountBefore(lcbs, g) + k,
             groupID |-> g - 1,
             lcb_idx |-> lcbs[g][k].lcb_idx,
             strand |-> lcbs[g][k].strand,
             start |-> lcbs[g][k].start,
             end |-> lcbs[g][k].end,
             name |-> lcbs[g][k].name,
             hidden |-> FALSE]]]

RECURSIVE Flatten(_, _)
Flatten(lcbs, g) ==
    IF g > Len(lcbs) THEN << >> ELSE lcbs[g] \o Flatten(lcbs, g + 1)

AllRegions(lcbs) ==
    UNION { { lcbs[g][k] : k \in 1..Len(lcbs[g]) } : g \in 1..Len(lcbs) }

IdsOf(seq) == [k \in 1..Len(seq) |-> seq[k].id]

GetGenomeRegions(lcbs) ==
    LET tagged == TagRegions(lcbs)
        flat == Flatten(tagged, 1)
        keys == { r.lcb_idx : r \in AllRegions(tagged) }
    IN  [tagged |-> tagged,
         regions |-> [i \in keys |-> IdsOf(SelectSeq(flat, LAMBDA r : r.lcb_idx = i))],
         regionCount |-> Len(flat),
         lcbCount |-> Len(lcbs)]

(***************************************************************************)
(* MauveViewer.setReference, one group (the body of data.forEach).         *)
(***************************************************************************)
Toggle(s) == IF s = "-" THEN "+" ELSE "-"

\* faulty variants of SetReferenceLcb: the other regions never toggled; toggled on every call
SetReferenceLcbNoPropagate(lcb, id) ==
    [k \in 1..Len(lcb) |->
        IF lcb[k].lcb_idx = id THEN [lcb[k] EXCEPT !.strand = "+"] ELSE lcb[k]]

SetReferenceLcbAlwaysFlip(lcb, id) ==
    LET present == \E k \in 1..Len(lcb) : lcb[k].lcb_idx = id
    IN  [k \in 1..Len(lcb) |->
            IF lcb[k].lcb_idx = id THEN [lcb[k] EXCEPT !.strand = "+"]
            ELSE IF present THEN [lcb[k] EXCEPT !.strand = Toggle(lcb[k].strand)]
            ELSE lcb[k]]

\* faulty variant of SetReferenceLcb: 'flipped' starts true and is cleared only by a
\* reference region found forward
SetReferenceLcbFlippedByDefault(lcb, id) ==
    LET flipped == ~ \E k \in 1..Len(lcb) : lcb[k].lcb_idx = id /\ lcb[k].strand = "+"
    IN  [k \in 1..Len(lcb) |->
            IF lcb[k].lcb_idx = id THEN [lcb[k] EXCEPT !.strand = "+"]
            ELSE IF flipped THEN [lcb[k] EXCEPT !.strand = Toggle(lcb[k].strand)]
            ELSE lcb[k]]

SetReferenceLcb(lcb, id) ==
    LET flipped == \E k \in 1..Len(lcb) : lcb[k].lcb_idx = id /\ lcb[k].strand # "+"
    IN  [k \in 1..Len(lcb) |->
            IF lcb[k].lcb_idx = id THEN [lcb[k] EXCEPT !.strand = "+"]
            ELSE IF flipped THEN [lcb[k] EXCEPT !.strand = Toggle(lcb[k].strand)]
            ELSE lcb[k]]

SetReferenceData(d, id) == [g \in 1..Len(d) |-> SetReferenceLcb(d[g], id)]

(***************************************************************************)
(* MauveViewer.swapTrack and MauveViewer.swapBackbones.                    *)
(***************************************************************************)
\* faulty variant of SwapTrack: no temporary, the second write reads the first
SwapTrackNoTemp(gr, id, newID) ==
    [gr EXCEPT ![newID] = gr[id], ![id] = gr[id]]

SwapTrack(gr, id, newID) ==
    [gr EXCEPT ![newID] = gr[id], ![id] = gr[newID]]

\* faulty variant of RelabelRegion: 'if' for 'else if', so a region moved to newID moves back
RelabelRegionNoElse(region, oldID, newID) ==
    IF region.lcb_idx = oldID \/ region.lcb_idx = newID
    THEN [region EXCEPT !.lcb_idx = oldID]
    ELSE region

RelabelRegion(region, oldID, newID) ==
    IF region.lcb_idx = oldID THEN [region EXCEPT !.lcb_idx = newID]
    ELSE IF region.lcb_idx = newID THEN [region EXCEPT !.lcb_idx = oldID]
    ELSE region

\* lcb.sort((a, b) => a.lcb_idx - b.lcb_idx): a stable sort by lcb_idx
RECURSIVE InsertSorted(_, _)
InsertSorted(seq, r) ==
    IF seq = << >> THEN << r >>
    ELSE IF seq[Len(seq)].lcb_idx <= r.lcb_idx THEN Append(seq, r)
    ELSE Append(InsertSorted(SubSeq(seq, 1, Len(seq) - 1), r), seq[Len(seq)])

RECURSIVE SortPrefix(_, _)
SortPrefix(lcb, n) ==
    IF n = 0 THEN << >> ELSE InsertSorted(SortPrefix(lcb, n - 1), lcb[n])

\* faulty variant of SortLcb: the group is left in the order it had
SortLcbOmitted(lcb) == lcb

\* faulty variant of SortLcb: the sort stops one element short
SortLcbShort(lcb) == SortPrefix(lcb, Len(lcb) - 1)

SortLcb(lcb) == SortPrefix(lcb, Len(lcb))

SwapBackbonesLcb(lcb, oldID, newID) ==
    SortLcb([k \in 1..Len(lcb) |-> RelabelRegion(lcb[k], oldID, newID)])

SwapBackbones(d, oldID, newID) ==
    [g \in 1..Len(d) |-> SwapBackbonesLcb(d[g], oldID, newID)]

(***************************************************************************)
(* MauveViewer.hideTrack and MauveViewer.showTrack.                        *)
(***************************************************************************)
SetHidden(d, id, h) ==
    [g \in 1..Len(d) |->
        [k \in 1..Len(d[g]) |->
            IF d[g][k].lcb_idx = id THEN [d[g][k] EXCEPT !.hidden = h] ELSE d[g][k]]]

\* Array.prototype.indexOf, 0-based, -1 when absent
RECURSIVE IndexFrom(_, _, _)
IndexFrom(seq, x, k) ==
    IF k > Len(seq) THEN -1
    ELSE IF seq[k] = x THEN k - 1
    ELSE IndexFrom(seq, x, k + 1)

IndexOf(seq, x) == IndexFrom(seq, x, 1)

\* faulty variant of Splice: the removal starts one place late
SpliceOffByOne(seq, start) ==
    SubSeq(seq, 1, IF start + 1 > Len(seq) THEN Len(seq) ELSE start + 1)

\* Array.prototype.splice(start) with one argument: removes from start to the end;
\* a negative start counts from the end
Splice(seq, start) ==
    LET from == IF start < 0
                THEN (IF Len(seq) + start > 0 THEN Len(seq) + start ELSE 0)
                ELSE (IF start > Len(seq) THEN Len(seq) ELSE start)
    IN  SubSeq(seq, 1, from)

(***************************************************************************)
(* Coordinate scale.  Track (./track) is not among the sources: its        *)
(* getZoomScale() is modelled from the specification's Coordinate Scale, a *)
(* linear map shared by all tracks and re-derived from the zoom transform: *)
(* scale(p) = k * p + t.                                                   *)
(***************************************************************************)
IdentityZoom == [k |-> 1, t |-> 0]

ZoomTransforms == [k : 1..MaxZoom, t : {0}]

GetZoomScale(trackIdx) == zoom

ScaleApply(x, p) == x.k * p + x.t

\* Math.round(x.invert(s)): the nearest integer, halves rounded up
RoundInvert(x, s) == (2 * (s - x.t) + x.k) \div (2 * x.k)

(***************************************************************************)
(* Cursor.constructor and Cursor.render: the fields and the cursor lines   *)
(* and hover boxes drawn once per track.                                   *)
(***************************************************************************)
NewCursor(tracksParam, onclickParam) ==
    [tracks |-> tracksParam,
     onclick |-> onclickParam,
     hoverXPos |-> Undefined,
     hoverTrackID |-> Undefined,
     hoverLCBID |-> Undefined,
     scales |-> << >>,
     relativeXs |-> << >>]

\* MauveViewer.render: a new svg, new tracks (zoom reset) and a new Cursor, which
\* is given d3, trackCount, svg, scale and container: neither tracks nor onclick
Render ==
    /\ zoom' = IdentityZoom
    /\ cursor' = NewCursor(Undefined, Undefined)
    /\ lineX' = [i \in 1..trackCount |-> -11]
    /\ boxX' = [i \in 1..trackCount |-> -11]
    /\ opacity' = Undefined
    /\ report' = Undefined
    /\ error' = "none"

(***************************************************************************)
(* MauveViewer operations.  Each ends in render(), except the early return *)
(* of a move beyond the first or last track.                               *)
(***************************************************************************)
TrackIds == 1..trackCount

\* setReference is public and does not look at its argument's range: the indices it
\* is called with are the tracks' and one that no region carries
ReferenceIds == 1..(trackCount + 1)

SetReference(id) ==
    /\ data' = SetReferenceData(data, id)
    /\ reference' = id
    /\ UNCHANGED <<genomeRegions, trackCount, hiddenTracks>>
    /\ Render

SwapAndRender(id, swapID) ==
    /\ genomeRegions' = SwapTrack(genomeRegions, id, swapID)
    /\ data' = SwapBackbones(data, id, swapID)
    /\ UNCHANGED <<trackCount, hiddenTracks, reference>>
    /\ Render

MoveTrackUp(id) ==
    IF id - 1 < 1
    THEN UNCHANGED vars
    ELSE SwapAndRender(id, id - 1)

MoveTrackDown(id) ==
    IF id + 1 > trackCount
    THEN UNCHANGED vars
    ELSE SwapAndRender(id, id + 1)

HideTrack(id) ==
    /\ Len(hiddenTracks) < MaxHidden
    /\ data' = SetHidden(data, id, TRUE)
    /\ hiddenTracks' = Append(hiddenTracks, id)
    /\ UNCHANGED <<genomeRegions, trackCount, reference>>
    /\ Render

ShowTrack(id) ==
    /\ data' = SetHidden(data, id, FALSE)
    /\ hiddenTracks' = Splice(hiddenTracks, IndexOf(hiddenTracks, id))
    /\ UNCHANGED <<genomeRegions, trackCount, reference>>
    /\ Render

\* MauveViewer.constructor and init: load, index, set track 1 as reference, render
Loaded(raw) ==
    LET g == GetGenomeRegions(raw)
    IN  /\ data = SetReferenceData(g.tagged, 1)
        /\ genomeRegions = g.regions
        /\ trackCount = Cardinality(DOMAIN g.regions)
        /\ hiddenTracks = << >>
        /\ reference = 1
        /\ zoom = IdentityZoom
        /\ lineX = [i \in 1..Cardinality(DOMAIN g.regions) |-> -11]
        /\ boxX = [i \in 1..Cardinality(DOMAIN g.regions) |-> -11]
        /\ opacity = Undefined
        /\ report = Undefined
        /\ error = "none"

Init ==
    /\ \E raw \in Inputs : Loaded(raw)
    /\ cursor = NewCursor(Undefined, Undefined)

Next ==
    \/ \E id \in ReferenceIds : SetReference(id)
    \/ \E id \in TrackIds : MoveTrackUp(id)
    \/ \E id \in TrackIds : MoveTrackDown(id)
    \/ \E id \in TrackIds : HideTrack(id)
    \/ \E id \in TrackIds : ShowTrack(id)

Spec == Init /\ [][Next]_vars

(***************************************************************************)
(* Cursor.resetHover: the handlers bound to the tracks.                    *)
(***************************************************************************)
\* obj[key] = val on a JS object used as a map
Put(f, key, val) == [i \in DOMAIN f \cup {key} |-> IF i = key THEN val ELSE f[i]]

\* the elements of class group-<groupID>: the regions of that LCB
GroupOf(groupID) == data[groupID + 1]

\* faulty variant of NextXPos: the offset taken from the start whatever the strands
NextXPosFromStart(x, d, hoverStrand, relXPos) ==
    ScaleApply(x, d.start) + relXPos

\* lines 165-170: the position on another region of the hovered group
NextXPos(x, d, hoverStrand, relXPos) ==
    IF hoverStrand # d.strand
    THEN ScaleApply(x, d.end) - relXPos
    ELSE ScaleApply(x, d.start) + relXPos

\* lines 156-184: svg.selectAll('.group-<groupID>').each(...), from element k on
RECURSIVE EachOther(_, _, _, _, _, _)
EachOther(lcb, k, trackID, hoverStrand, xPos, acc) ==
    IF k > Len(lcb) THEN acc
    ELSE IF lcb[k].lcb_idx = trackID
    THEN EachOther(lcb, k + 1, trackID, hoverStrand, xPos, acc)
    ELSE
        LET d == lcb[k]
            x == GetZoomScale(d.lcb_idx)
            relXPos == xPos - acc.relBase
            nextXPos == NextXPos(x, d, hoverStrand, relXPos)
            diff == xPos - nextXPos + 1
        IN  EachOther(lcb, k + 1, trackID, hoverStrand, xPos,
                [acc EXCEPT
                    !.relativeXs = Put(acc.relativeXs, d.lcb_idx - 1, diff),
                    !.scales = Put(acc.scales, d.lcb_idx - 1, x),
                    !.lineX = [acc.lineX EXCEPT ![d.lcb_idx] = nextXPos],
                    !.boxX = [acc.boxX EXCEPT ![d.lcb_idx] = nextXPos - 5]])

\* lines 124-184 for a Cursor that holds its tracks
Hover(d, rawX) ==
    LET trackID == d.lcb_idx
        x == GetZoomScale(trackID)
        xPos == ScaleApply(x, RoundInvert(x, rawX))
        own == [relBase |-> ScaleApply(x, d.start),
                relativeXs |-> Put(cursor.relativeXs, trackID - 1, 0),
                scales |-> Put(cursor.scales, trackID - 1, x),
                lineX |-> [lineX EXCEPT ![trackID] = xPos],
                boxX |-> [boxX EXCEPT ![trackID] = xPos - 5]]
        all == EachOther(GroupOf(d.groupID), 1, trackID, d.strand, xPos, own)
    IN  /\ error' = "none"
        /\ cursor' = [cursor EXCEPT !.hoverTrackID = Some(trackID),
                                    !.hoverXPos = Some(xPos),
                                    !.hoverLCBID = Some(d.groupID),
                                    !.relativeXs = all.relativeXs,
                                    !.scales = all.scales]
        /\ lineX' = all.lineX
        /\ boxX' = all.boxX

\* the surface positions inside the rendered rect of region d
RectXs(d) == ScaleApply(GetZoomScale(d.lcb_idx), d.start)..ScaleApply(GetZoomScale(d.lcb_idx), d.end)

\* mousemove over a rect.region with datum d, the mouse at rawX
MousemoveRegion(d, rawX) ==
    /\ report' = Undefined
    /\ UNCHANGED <<modelVars, zoom, opacity>>
    /\ IF cursor.tracks = Undefined
       THEN \* self.tracks[trackID - 1] throws after hoverTrackID was assigned
            /\ cursor' = [cursor EXCEPT !.hoverTrackID = Some(d.lcb_idx)]
            /\ error' = "TypeError"
            /\ UNCHANGED <<lineX, boxX>>
       ELSE Hover(d, rawX)

\* mousemove with no element under the mouse, or over a cursor line or hover box
MousemoveIgnored ==
    /\ error' = "none"
    /\ report' = Undefined
    /\ UNCHANGED <<modelVars, zoom, cursor, lineX, boxX, opacity>>

\* mousemove over any other element: the cursors are hidden
MousemoveBackground ==
    /\ opacity' = Some(0)
    /\ error' = "none"
    /\ report' = Undefined
    /\ UNCHANGED <<modelVars, zoom, cursor, lineX, boxX>>

Mouseover ==
    /\ opacity' = Some(1)
    /\ error' = "none"
    /\ report' = Undefined
    /\ UNCHANGED <<modelVars, zoom, cursor, lineX, boxX>>

Mouseout(toCursorLine) ==
    /\ IF toCursorLine
       THEN UNCHANGED <<lineX, boxX, opacity>>
       ELSE /\ lineX' = [i \in DOMAIN lineX |-> -2]
            /\ boxX' = [i \in DOMAIN boxX |-> -11]
            /\ opacity' = Some(0)
    /\ error' = "none"
    /\ report' = Undefined
    /\ UNCHANGED <<modelVars, zoom, cursor>>

\* lines 66-76: the click callback
Click ==
    /\ IF cursor.onclick = Undefined
       THEN /\ error' = "TypeError"
            /\ report' = Undefined
       ELSE /\ error' = "none"
            /\ report' = Some([trackID |-> cursor.hoverTrackID,
                               lcbID |-> cursor.hoverLCBID,
                               xPos |-> cursor.hoverXPos,
                               relativeXs |-> cursor.relativeXs,
                               scales |-> cursor.scales])
    /\ UNCHANGED <<modelVars, zoom, cursor, lineX, boxX, opacity>>

\* MauveViewer.render's zoomed(): the tracks rescale, the handlers are bound again
Zoomed(z) ==
    /\ zoom' = z
    /\ error' = "none"
    /\ report' = Undefined
    /\ UNCHANGED <<modelVars, cursor, lineX, boxX, opacity>>

\* A Cursor constructed with the parameters its constructor reads (tracks, onclick)
\* on the surface of a loaded alignment
InitCursor ==
    /\ \E raw \in Inputs : Loaded(raw)
    /\ cursor = NewCursor(Some("tracks"), Some("onclick"))

NextCursor ==
    \/ Mouseover
    \/ \E d \in AllRegions(data) : \E rawX \in RectXs(d) : MousemoveRegion(d, rawX)
    \/ MousemoveIgnored
    \/ MousemoveBackground
    \/ \E toCursorLine \in BOOLEAN : Mouseout(toCursorLine)
    \/ Click
    \/ \E z \in ZoomTransforms : Zoomed(z)

CursorSpec == InitCursor /\ [][NextCursor]_vars

\* The Cursor as MauveViewer.render constructs it (no tracks, no onclick), on the
\* surface of the alignment the viewer has just loaded and rendered, under the same
\* pointer events, click and zoom
ViewerCursorSpec == Init /\ [][NextCursor]_vars

(***************************************************************************)
(* Properties.                                                             *)
(***************************************************************************)
RegionOf(d, id) == CHOOSE r \in AllRegions(d) : r.id = id

RegionIds(d) == { r.id : r \in AllRegions(d) }

GroupSet(d, g) == { d[g][k] : k \in 1..Len(d[g]) }

Range(seq) == { seq[k] : k \in 1..Len(seq) }

StrandsOf(d) == [id \in RegionIds(d) |-> RegionOf(d, id).strand]

\* the regions of the hovered region's group that lie on another track
OthersOf(d) == { r \in GroupSet(data, d.groupID + 1) : r.lcb_idx # d.lcb_idx }

Snapped(d, rawX) ==
    ScaleApply(GetZoomScale(d.lcb_idx), RoundInvert(GetZoomScale(d.lcb_idx), rawX))

\* C1: a hover over region h at snapped position s puts the hovered track's cursor
\* at s and, with relOffset = s - scale_h(h.start), the cursor of every other region
\* r of the group at scale_r(r.start) + relOffset when r.strand = h.strand and at
\* scale_r(r.end) - relOffset otherwise (h = 100..200 '+', r = 500..650, hover at 150:
\* 600 for r '-', 550 for r '+').
C1_CursorMappingFormula ==
    /\ NextXPos(IdentityZoom, [start |-> 500, end |-> 650, strand |-> "-"], "+", 150 - 100) = 600
    /\ NextXPos(IdentityZoom, [start |-> 500, end |-> 650, strand |-> "+"], "+", 150 - 100) = 550
    /\ [][\A h \in AllRegions(data) : \A rawX \in RectXs(h) :
            MousemoveRegion(h, rawX) =>
                LET s == Snapped(h, rawX)
                    relOffset == s - ScaleApply(GetZoomScale(h.lcb_idx), h.start)
                IN  /\ lineX'[h.lcb_idx] = s
                    /\ \A r \in OthersOf(h) :
                          lineX'[r.lcb_idx] =
                              IF r.strand = h.strand
                              THEN ScaleApply(GetZoomScale(r.lcb_idx), r.start) + relOffset
                              ELSE ScaleApply(GetZoomScale(r.lcb_idx), r.end) - relOffset]_vars

\* a hover, zoomed in, off the start of a region whose group holds an opposite-strand
\* region and a same-strand one, the cursors standing where the two formulas put them
C1_Witness ==
    /\ zoom.k = 2
    /\ cursor.hoverLCBID = Some(0)
    /\ \E h \in AllRegions(data) : \E r1, r2 \in OthersOf(h) :
          LET rel == Val(cursor.hoverXPos) - ScaleApply(zoom, h.start)
          IN  /\ Some(h.lcb_idx) = cursor.hoverTrackID
              /\ Some(lineX[h.lcb_idx]) = cursor.hoverXPos
              /\ rel > 0
              /\ r1.strand # h.strand
              /\ r2.strand = h.strand
              /\ lineX[r1.lcb_idx] = ScaleApply(zoom, r1.end) - rel
              /\ lineX[r1.lcb_idx] # ScaleApply(zoom, r1.start) + rel
              /\ lineX[r2.lcb_idx] = ScaleApply(zoom, r2.start) + rel

\* C2: setReference(t) acts on each group by the strand of track t's region in it:
\* not '+', that region becomes '+' and every other region of the group is toggled
\* once; already '+', or no region of track t, no strand of the group changes.
C2_SetReferencePerGroup ==
    [][\A t \in TrackIds : SetReference(t) =>
          /\ Len(data') = Len(data)
          /\ \A g \in 1..Len(data) :
                LET flips == \E r \in GroupSet(data, g) : r.lcb_idx = t /\ r.strand # "+"
                IN  /\ Len(data'[g]) = Len(data[g])
                    /\ \A k \in 1..Len(data[g]) :
                          data'[g][k] =
                              IF ~flips THEN data[g][k]
                              ELSE IF data[g][k].lcb_idx = t
                              THEN [data[g][k] EXCEPT !.strand = "+"]
                              ELSE [data[g][k] EXCEPT
                                       !.strand = IF data[g][k].strand = "+" THEN "-" ELSE "+"]]_vars

\* genome 1, normalised to '+' at load, is reversed in group 0 and not in group 1:
\* a later reference flipped one group and left the other alone
C2_Witness ==
    /\ \E r \in GroupSet(data, 1) : r.name = 1 /\ r.strand = "-"
    /\ \E r \in GroupSet(data, 2) : r.name = 1 /\ r.strand = "+"

\* C3: setReference is idempotent: after setReference(t), a second setReference(t)
\* leaves every region's strand as the first call left it.
C3_SetReferenceIdempotent ==
    [][\A t \in TrackIds : SetReference(t) =>
          StrandsOf(SetReferenceData(data', t)) = StrandsOf(data')]_vars

\* track 2 is the reference (all its regions '+') and got there by a flip: genome 1
\* is reversed somewhere
C3_Witness ==
    /\ \A r \in AllRegions(data) : r.lcb_idx = 2 => r.strand = "+"
    /\ \E r \in AllRegions(data) : r.name = 1 /\ r.lcb_idx = 1 /\ r.strand = "-"
    /\ StrandsOf(SetReferenceData(data, 2)) = StrandsOf(data)

ThreeCalls(d, t, t2) == SetReferenceData(SetReferenceData(d, t2), t)

\* C4 as claimed: after setReference(t), the calls setReference(t2); setReference(t)
\* with t2 # t give back the strands of every region of every group.
C4_ReversibleInEveryGroup ==
    [][\A t, t2 \in TrackIds : (t # t2 /\ SetReference(t)) =>
          StrandsOf(ThreeCalls(data', t, t2)) = StrandsOf(data')]_vars

HasTrack(d, g, t) == \E r \in GroupSet(d, g) : r.lcb_idx = t

\* C4, amended: after setReference(t), the calls setReference(t2); setReference(t)
\* with t2 # t give back the strands of every group in which t has a region or t2
\* has none.
C4_ReversibleWhereReferencePresent ==
    [][\A t, t2 \in TrackIds : (t # t2 /\ SetReference(t)) =>
          \A g \in 1..Len(data') :
              (HasTrack(data', g, t) \/ ~HasTrack(data', g, t2)) =>
                  \A k \in 1..Len(data'[g]) :
                      ThreeCalls(data', t, t2)[g][k].strand = data'[g][k].strand]_vars

\* track 2 has been made the reference by a flip; setReference(3) flips group 0 and the third call flips
\* it back, while group 1, which has no region of track 2, stays as setReference(3)
\* left it
C4_Witness ==
    /\ \A r \in AllRegions(data) : r.lcb_idx = 2 => r.strand = "+"
    /\ \E r \in AllRegions(data) : r.name = 1 /\ r.lcb_idx = 1 /\ r.strand = "-"
    /\ HasTrack(data, 1, 2) /\ ~HasTrack(data, 2, 2) /\ HasTrack(data, 2, 3)
    /\ SetReferenceData(data, 3)[1] # data[1]
    /\ ThreeCalls(data, 2, 3)[1] = data[1]
    /\ ThreeCalls(data, 2, 3)[2] # data[2]

SameRegionSet(d1, d2) ==
    /\ Len(d1) = Len(d2)
    /\ \A g \in 1..Len(d1) : GroupSet(d1, g) = GroupSet(d2, g)

SwappedBack(a, b) ==
    /\ SameRegionSet(SwapBackbones(data', a, b), data)
    /\ SwapTrack(genomeRegions', a, b) = genomeRegions

\* C5: after moveTrackUp or moveTrackDown has swapped tracks a and b, a second
\* swapTrack(a, b) and swapBackbones(a, b) gives every region of every group its
\* original track index, strand, start and end, and every track its original region
\* list.
C5_SwapTwiceIsIdentity ==
    [][\A id \in TrackIds :
          /\ (id > 1 /\ MoveTrackUp(id)) => SwappedBack(id, id - 1)
          /\ (id < trackCount /\ MoveTrackDown(id)) => SwappedBack(id, id + 1)]_vars

\* the tracks stand in another order than the genomes were loaded in
C5_Witness ==
    /\ \E r \in AllRegions(data) : r.name = 1 /\ r.lcb_idx = 3
    /\ \E r \in AllRegions(data) : r.name = 3 /\ r.lcb_idx = 2
    /\ genomeRegions[3] = <<1, 5>>

IsSortedLcb(lcb) == \A k \in 1..(Len(lcb) - 1) : lcb[k].lcb_idx <= lcb[k + 1].lcb_idx

Relabelled(a, b) ==
    /\ RegionIds(data') = RegionIds(data)
    /\ \A g \in 1..Len(data) :
          { r.id : r \in GroupSet(data', g) } = { r.id : r \in GroupSet(data, g) }
    /\ \A id \in RegionIds(data) :
          RegionOf(data', id).lcb_idx =
              IF RegionOf(data, id).lcb_idx = a THEN b
              ELSE IF RegionOf(data, id).lcb_idx = b THEN a
              ELSE RegionOf(data, id).lcb_idx
    /\ \A g \in 1..Len(data') : IsSortedLcb(data'[g])

\* C6: a swap of tracks a and b gives b to every region that had a, a to every region
\* that had b, leaves the others' track index, and leaves the regions of each group
\* in ascending order of track index.
C6_SwapRelabelsAndSorts ==
    [][\A id \in TrackIds :
          /\ (id > 1 /\ MoveTrackUp(id)) => Relabelled(id, id - 1)
          /\ (id < trackCount /\ MoveTrackDown(id)) => Relabelled(id, id + 1)]_vars

\* group 1, loaded as tracks 3, 1, has been relabelled and put in order
C6_Witness ==
    /\ data[2][1].lcb_idx = 2 /\ data[2][1].name = 1
    /\ data[2][2].lcb_idx = 3 /\ data[2][2].name = 3
    /\ \E r \in GroupSet(data, 1) : r.name = 2 /\ r.lcb_idx = 1

\* C7: after a hover inside region h, the position computed for every other region r
\* of the group lies between scale(r.start) and scale(r.end).
C7_MappedInsideTargetSpan ==
    [][\A h \in AllRegions(data) : \A rawX \in RectXs(h) :
          MousemoveRegion(h, rawX) =>
              \A r \in OthersOf(h) :
                  /\ ScaleApply(GetZoomScale(r.lcb_idx), r.start) <= lineX'[r.lcb_idx]
                  /\ lineX'[r.lcb_idx] <= ScaleApply(GetZoomScale(r.lcb_idx), r.end)]_vars

\* C8: once a region of group G has been hovered, relativeXs and scales hold an entry
\* for exactly the tracks that have a region in G.
C8_EntriesForGroupTracksOnly ==
    cursor.hoverLCBID # Undefined =>
        LET keys == { r.lcb_idx - 1 : r \in GroupSet(data, Val(cursor.hoverLCBID) + 1) }
        IN  /\ DOMAIN cursor.relativeXs = keys
            /\ DOMAIN cursor.scales = keys

\* C9: a mousemove over the background hides the cursors and leaves no hovered track,
\* hovered group, position or per-track entry of an earlier hover for a click to
\* report.
C9_BackgroundLeavesNothing ==
    [][MousemoveBackground =>
          /\ opacity' = Some(0)
          /\ cursor'.hoverTrackID = Undefined
          /\ cursor'.hoverLCBID = Undefined
          /\ cursor'.hoverXPos = Undefined
          /\ DOMAIN cursor'.relativeXs = {}
          /\ DOMAIN cursor'.scales = {}]_vars

NotHidden(t) ==
    /\ t \notin Range(hiddenTracks)
    /\ \A r \in AllRegions(data) : r.lcb_idx = t => ~r.hidden

\* C10: hideTrack(t) changes nothing of a region but its hidden flag, and when track
\* t was not hidden (not in hiddenTracks, none of its regions flagged) a showTrack(t)
\* after it gives the regions' hidden flags and hiddenTracks as they were before.
C10_HideShowRoundTrip ==
    [][\A t \in TrackIds : HideTrack(t) =>
          /\ Len(data') = Len(data)
          /\ \A g \in 1..Len(data) :
                /\ Len(data'[g]) = Len(data[g])
                /\ \A k \in 1..Len(data[g]) :
                      [data'[g][k] EXCEPT !.hidden = data[g][k].hidden] = data[g][k]
          /\ NotHidden(t) =>
                /\ SetHidden(data', t, FALSE) = data
                /\ Splice(hiddenTracks', IndexOf(hiddenTracks', t)) = hiddenTracks]_vars

\* two tracks hidden one after the other, the second while the first was hidden
C10_Witness ==
    /\ Len(hiddenTracks) = 2
    /\ hiddenTracks[1] # hiddenTracks[2]
    /\ \A r \in AllRegions(data) : r.hidden <=> r.lcb_idx \in Range(hiddenTracks)
    /\ Splice(hiddenTracks, IndexOf(hiddenTracks, hiddenTracks[2])) = << hiddenTracks[1] >>

\* what load fixes of a region: its identity, its group and its span
Geometry(r) == [id |-> r.id, groupID |-> r.groupID, start |-> r.start, end |-> r.end, name |-> r.name]

\* the groups as getGenomeRegions numbered them at load (the inputs differ in strands only)
LoadedGroups == TagRegions(CHOOSE raw \in Inputs : TRUE)

\* C11: in every state reached by setReference, moveTrackUp, moveTrackDown, hideTrack
\* and showTrack the regions are those built at load, each in its original group with
\* its original groupID, start and end: none created, destroyed or moved to another group.
C11_RegionsAndGroupsFixed ==
    /\ Len(data) = Len(LoadedGroups)
    /\ \A g \in 1..Len(data) :
          /\ Len(data[g]) = Len(LoadedGroups[g])
          /\ { Geometry(r) : r \in GroupSet(data, g) }
                = { Geometry(r) : r \in GroupSet(LoadedGroups, g) }
          /\ \A r \in GroupSet(data, g) : r.groupID = g - 1

\* tracks were moved, a track is hidden and a group was reoriented
C11_Witness ==
    /\ \E r \in AllRegions(data) : r.name # r.lcb_idx
    /\ \E r \in AllRegions(data) : r.hidden
    /\ \E r \in AllRegions(data) : r.name = 1 /\ r.strand = "-"
    /\ reference = 3

\* C12: the current reference track, the track index passed to the most recent
\* setReference call (1 after init), has strand '+' on every region that carries it,
\* across setReference, moveTrackUp, moveTrackDown, hideTrack and showTrack.
C12_ReferenceTrackPositive ==
    \A r \in AllRegions(data) : r.lcb_idx = reference => r.strand = "+"

\* C13: from a loaded model (track indices 1..N, at most one region per track in each
\* group) every state reached by moveTrackUp, moveTrackDown, setReference, hideTrack
\* and showTrack has every region's track index in 1..N and at most one region per
\* track in each group.
C13_TrackIndicesValid ==
    /\ \A r \in AllRegions(data) : r.lcb_idx \in 1..trackCount
    /\ \A g \in 1..Len(data) :
          \A j, k \in 1..Len(data[g]) :
              data[g][j].lcb_idx = data[g][k].lcb_idx => j = k

\* the moves have taken every genome off the track index it was loaded on
C13_Witness ==
    \A r \in AllRegions(data) : r.name # r.lcb_idx

\* the track indices some region carries
CarriedIds(d) == { r.lcb_idx : r \in AllRegions(d) }

\* C14: moveTrackUp(1) and moveTrackDown(trackCount) leave every region's track index,
\* every group's order and genomeRegions unchanged, and setReference with a track
\* index that no region carries changes no region's strand.
C14_OutOfRangeIsNoOp ==
    [][/\ MoveTrackUp(1) => UNCHANGED <<data, genomeRegions>>
       /\ MoveTrackDown(trackCount) => UNCHANGED <<data, genomeRegions>>
       /\ \A id \in ReferenceIds \ CarriedIds(data) :
              SetReference(id) => StrandsOf(data') = StrandsOf(data)]_vars

\* setReference was last called with an index no region carries, on a model with
\* reverse regions and reordered tracks
C14_Witness ==
    /\ reference \notin CarriedIds(data)
    /\ \E r \in AllRegions(data) : r.strand = "-"
    /\ \E r \in AllRegions(data) : r.name # r.lcb_idx

\* C15: every interaction on a viewer built by MauveViewer (a pointer move over a
\* region, a click, handled by the Cursor that MauveViewer.render constructs) ends
\* normally: no handler ends in an error for a missing 'tracks' or 'onclick'.
C15_InteractionsEndNormally ==
    error = "none"

\* C16: a track index is in hiddenTracks if and only if the regions that carry that
\* index have hidden = true, after any sequence of hideTrack, showTrack, moveTrackUp,
\* moveTrackDown and setReference.
C16_VisibilityRecordsAgree ==
    \A t \in TrackIds :
        t \in Range(hiddenTracks)
            <=> \A r \in AllRegions(data) : r.lcb_idx = t => r.hidden

\* C17: showTrack(t) affects track t only: every other track that was in hiddenTracks
\* is still in it and the regions of other tracks keep their hidden flag, whatever
\* tracks were hidden, in whatever order, and whether or not t is hidden.
C17_ShowTrackAffectsOnlyItsTrack ==
    [][\A t \in TrackIds : ShowTrack(t) =>
          /\ \A u \in Range(hiddenTracks) \ {t} : u \in Range(hiddenTracks')
          /\ \A g \in 1..Len(data) : \A k \in 1..Len(data[g]) :
                data[g][k].lcb_idx # t => data'[g][k].hidden = data[g][k].hidden]_vars

\* the ids of the regions of the alignment data that carry track index i
IdsOnTrack(d, i) == { r.id : r \in { q \in AllRegions(d) : q.lcb_idx = i } }

\* C18: after load and after any sequence of moveTrackUp, moveTrackDown, setReference,
\* hideTrack and showTrack, for every track index i in 1..trackCount genomeRegions[i]
\* contains exactly the regions of the alignment data whose lcb_idx is i.
C18_TrackIndexMatchesData ==
    /\ DOMAIN genomeRegions = 1..trackCount
    /\ \A i \in 1..trackCount :
          /\ Range(genomeRegions[i]) = IdsOnTrack(data, i)
          /\ Len(genomeRegions[i]) = Cardinality(IdsOnTrack(data, i))

\* two moves have taken the genome loaded on track 1, with its two regions, to track 3
C18_Witness ==
    /\ genomeRegions[3] = << 1, 5 >>
    /\ \A r \in AllRegions(data) : r.name = 1 => r.lcb_idx = 3

\* the offsets from its start that a hover over region h can have under scale x
RelOffsets(x, h) == { ScaleApply(x, p) - ScaleApply(x, h.start) : p \in h.start..h.end }

\* C19: setReference preserves relative orientation: for every track t and every two
\* regions of one group, whether their strands are equal or opposite is the same
\* before and after setReference(t); so the position the cursor mapping computes on
\* a region, for a hover on any other region of its group at any offset, is the same
\* before and after the call.
C19_SetReferenceKeepsRelativeOrientation ==
    [][\A t \in ReferenceIds : SetReference(t) =>
          \A g \in 1..Len(data) : \A j, k \in 1..Len(data[g]) :
              /\ (data'[g][j].strand = data'[g][k].strand)
                    <=> (data[g][j].strand = data[g][k].strand)
              /\ j # k =>
                    \A x \in ZoomTransforms : \A rel \in RelOffsets(x, data[g][j]) :
                        NextXPos(x, data'[g][k], data'[g][j].strand, rel)
                            = NextXPos(x, data[g][k], data[g][j].strand, rel)]_vars

\* track 3 is the reference and both groups were reoriented for it: genome 1,
\* forward at load, is reverse in group 1, and group 0 holds an opposite-strand pair
C19_Witness ==
    /\ reference = 3
    /\ \A r \in AllRegions(data) : r.lcb_idx = 3 => r.strand = "+"
    /\ \E r \in GroupSet(data, 2) : r.name = 1 /\ r.strand = "-"
    /\ \E a, b \in GroupSet(data, 1) : a.strand # b.strand

\* C20: the cursor mapping is symmetric between two regions of a group: when a hover
\* over region a at snapped position p places region b's cursor at q, and q is a
\* position of b's span, a hover over b at q places a's cursor back at p, for
\* same-strand and opposite-strand pairs and spans of equal or unequal length.
C20_CursorMappingSymmetric ==
    [][\A a \in AllRegions(data) : \A rawX \in RectXs(a) :
          MousemoveRegion(a, rawX) =>
              \A b \in OthersOf(a) :
                  LET q == lineX'[b.lcb_idx]
                      relFromB == Snapped(b, q) - ScaleApply(GetZoomScale(b.lcb_idx), b.start)
                  IN  q \in RectXs(b) =>
                          NextXPos(GetZoomScale(a.lcb_idx), a, b.strand, relFromB)
                              = Snapped(a, rawX)]_vars

====
